---- MODULE Spec2Model ----
(***************************************************************************)
(* State-machine model of the FastAPI IDOR demo: the document endpoints    *)
(* (app/api/endpoints/documents.py), the document and user services, the   *)
(* bearer-token dependency (app/core/security_enhanced.py) and the two     *)
(* middlewares (app/core/middleware.py) in the order app/main.py installs  *)
(* them.  The storage engine is SQLite, the default DATABASE_URL, unless   *)
(* a specification draws database_url.                                     *)
(*                                                                         *)
(* Python values are represented as follows.  Optional[X] is a set with at *)
(* most one element ({} is None).  A table is the set of its rows.  A      *)
(* Session `db` is a record holding its identity and the tables it sees.   *)
(* A service call returns [ret, db, log]: the value returned, the session  *)
(* after the call, and the storage and policy events the call performed.   *)
(***************************************************************************)
EXTENDS Integers, Sequences, FiniteSets, TLC

VARIABLES
    users,          \* table users
    documents,      \* table documents
    conn_ctx,       \* per pooled connection: the app.user_id bound on it
    pc,             \* where the request in flight is: idle, middleware, router, done
    mw_i,           \* index into middleware_stack of the middleware to run next
    req,            \* the request in flight
    state_user_id,  \* request.state.user_id (Optional[int])
    n_sessions,     \* SessionLocal() calls made for the request in flight
    log,            \* storage and policy events of the request in flight, in order
    resp,           \* Optional response of the request in flight
    n_created,      \* number of POST /documents/ handled so far
    n_registered,   \* number of successful POST /auth/register so far
    auth_seen,      \* Optional (status, detail) of the latest authentication failure
    decision,       \* an access decision: verify_ownership's arguments and result
    issued,         \* the tokens login has returned, each with the principal it was issued to
    workers,        \* the requests that are handled concurrently, one per worker
    database_url    \* settings.DATABASE_URL of the deployment

\* the state that the handling of a single request leaves alone
extra == <<issued, workers, database_url>>

vars == <<users, documents, conn_ctx, pc, mw_i, req, state_user_id, n_sessions,
          log, resp, n_created, n_registered, auth_seen, decision,
          issued, workers, database_url>>

-----------------------------------------------------------------------------
(* Bounds of the model *)

\* POST /documents/ requests handled in one behaviour
MaxCreates == 1
\* successful registrations in one behaviour
MaxRegisters == 1
\* connections in the engine's pool
MaxConn == 2
\* requests handled concurrently
MaxWorkers == 2
\* largest integer a decimal string of the model denotes
MaxInt == 9

-----------------------------------------------------------------------------
(* Python primitives *)

None == "None"

\* str(n)
str(n) == ToString(n)

\* int(s) raises ValueError unless s is a decimal literal
int_ok(s) == \E n \in 0..MaxInt : str(n) = s
int(s) == CHOOSE n \in 0..MaxInt : str(n) = s

\* truth value of an Optional[int]: None and 0 are falsy
truthy(opt) == \E n \in opt : n # 0

The(opt) == CHOOSE x \in opt : TRUE

SetMax(S) == CHOOSE m \in S : \A x \in S : x <= m

\* SQLite INTEGER PRIMARY KEY without AUTOINCREMENT: max(rowid) + 1
next_rowid(rows) == IF rows = {} THEN 1 ELSE SetMax({r.id : r \in rows}) + 1

-----------------------------------------------------------------------------
(* Events a call leaves in the log *)

QueryEv(table, db) == [ev |-> "query", what |-> table, session |-> db.session]
CommitEv(what, db) == [ev |-> "commit", what |-> what, session |-> db.session]
VerifyEv == [ev |-> "verify_ownership", what |-> "policy", session |-> 0]
BindEv(uid, s) == [ev |-> "bind", what |-> str(uid), session |-> s]

-----------------------------------------------------------------------------
(* app/core/security_enhanced.py *)

verify_ownership_always(resource_owner_id, current_user_id, is_admin) == TRUE

verify_ownership_owner_only(resource_owner_id, current_user_id, is_admin) ==
    resource_owner_id = current_user_id

verify_ownership_admin_only(resource_owner_id, current_user_id, is_admin) == is_admin

verify_ownership(resource_owner_id, current_user_id, is_admin) ==
    IF resource_owner_id = current_user_id THEN TRUE
    ELSE IF is_admin THEN TRUE
    ELSE FALSE

-----------------------------------------------------------------------------
(* app/services/document_service.py *)

get_document_by_id(db, document_id) ==
    [ret |-> {d \in db.documents : d.id = document_id},
     db  |-> db,
     log |-> <<QueryEv("documents", db)>>]

get_document_unchecked(db, document_id, current_user_id, is_admin) ==
    get_document_by_id(db, document_id)

get_document_with_ownership_check(db, document_id, current_user_id, is_admin) ==
    LET q == get_document_by_id(db, document_id) IN
    IF q.ret = {} THEN [ret |-> {}, db |-> db, log |-> q.log]
    ELSE IF ~verify_ownership(The(q.ret).owner_id, current_user_id, is_admin)
         THEN [ret |-> {}, db |-> db, log |-> Append(q.log, VerifyEv)]
         ELSE [ret |-> q.ret, db |-> db, log |-> Append(q.log, VerifyEv)]

get_user_documents(db, user_id) ==
    [ret |-> {d \in db.documents : d.owner_id = user_id},
     db  |-> db,
     log |-> <<QueryEv("documents", db)>>]

create_document(db, document_data, owner_id) ==
    LET db_document == [id       |-> next_rowid(db.documents),
                        title    |-> document_data.title,
                        content  |-> document_data.content,
                        owner_id |-> owner_id]
    IN [ret |-> {db_document},
        db  |-> [db EXCEPT !.documents = @ \cup {db_document}],
        log |-> <<CommitEv("insert", db)>>]

\* Variant in which the row passes to whoever updates it.
update_document_transfer(db, document_id, document_data, current_user_id, is_admin) ==
    LET c == get_document_with_ownership_check(db, document_id, current_user_id, is_admin) IN
    IF c.ret = {} THEN [ret |-> {}, db |-> db, log |-> c.log]
    ELSE LET document == The(c.ret)
             updated  == [document EXCEPT
                            !.owner_id = current_user_id,
                            !.title   = IF document_data.title # None
                                        THEN document_data.title ELSE @,
                            !.content = IF document_data.content # None
                                        THEN document_data.content ELSE @]
         IN [ret |-> {updated},
             db  |-> [db EXCEPT !.documents = (@ \ {document}) \cup {updated}],
             log |-> Append(c.log, CommitEv("update", db))]

update_document(db, document_id, document_data, current_user_id, is_admin) ==
    LET c == get_document_with_ownership_check(db, document_id, current_user_id, is_admin) IN
    IF c.ret = {} THEN [ret |-> {}, db |-> db, log |-> c.log]
    ELSE LET document == The(c.ret)
             updated  == [document EXCEPT
                            !.title   = IF document_data.title # None
                                        THEN document_data.title ELSE @,
                            !.content = IF document_data.content # None
                                        THEN document_data.content ELSE @]
         IN [ret |-> {updated},
             db  |-> [db EXCEPT !.documents = (@ \ {document}) \cup {updated}],
             log |-> Append(c.log, CommitEv("update", db))]

delete_document_blind(db, document_id, current_user_id, is_admin) ==
    [ret |-> TRUE,
     db  |-> [db EXCEPT !.documents = {d \in @ : d.id # document_id}],
     log |-> <<CommitEv("delete", db)>>]

delete_document(db, document_id, current_user_id, is_admin) ==
    LET c == get_document_with_ownership_check(db, document_id, current_user_id, is_admin) IN
    IF c.ret = {} THEN [ret |-> FALSE, db |-> db, log |-> c.log]
    ELSE [ret |-> TRUE,
          db  |-> [db EXCEPT !.documents = @ \ c.ret],
          log |-> Append(c.log, CommitEv("delete", db))]

demo_documents ==
    { [id |-> 1, title |-> "Alice's Secret Document",
       content |-> "This is Alice's private content", owner_id |-> 1],
      [id |-> 2, title |-> "Bob's Work Notes",
       content |-> "Bob's confidential work notes", owner_id |-> 2],
      [id |-> 3, title |-> "Charlie's Personal Diary",
       content |-> "Charlie's personal thoughts", owner_id |-> 3],
      [id |-> 4, title |-> "Diana's Project Plan",
       content |-> "Diana's project planning", owner_id |-> 4],
      [id |-> 5, title |-> "Admin's System Notes",
       content |-> "System administration notes", owner_id |-> 5] }

\* Rows are added for the ids that are absent; SQLite does not enforce the
\* foreign key on owner_id (PRAGMA foreign_keys is off by default).
create_demo_documents(db) ==
    LET new_docs == {doc_data \in demo_documents :
                        get_document_by_id(db, doc_data.id).ret = {}}
    IN [ret |-> {doc_data.id : doc_data \in new_docs},
        db  |-> [db EXCEPT !.documents = @ \cup new_docs],
        log |-> <<QueryEv("documents", db), CommitEv("insert", db)>>]

-----------------------------------------------------------------------------
(* app/services/user_service.py *)

get_user_by_username(db, username) ==
    [ret |-> {u \in db.users : u.username = username},
     db  |-> db,
     log |-> <<QueryEv("users", db)>>]

get_user_by_email(db, email) ==
    [ret |-> {u \in db.users : u.email = email},
     db  |-> db,
     log |-> <<QueryEv("users", db)>>]

(* app/core/security.py is not in the repository; its functions follow the   *)
(* specification: the secret is stored as a digest that is never the secret  *)
(* itself.                                                                   *)
get_password_hash(password) == <<"digest", password>>

verify_password(plain_password, hashed_password) ==
    hashed_password = get_password_hash(plain_password)

\* role is not passed to User(...): the column default "user" applies
create_user(db, user_data) ==
    IF get_user_by_username(db, user_data.username).ret # {}
    THEN [ret |-> {}, exc |-> {"Username already registered"}, db |-> db,
          log |-> <<QueryEv("users", db)>>]
    ELSE IF get_user_by_email(db, user_data.email).ret # {}
    THEN [ret |-> {}, exc |-> {"Email already registered"}, db |-> db,
          log |-> <<QueryEv("users", db), QueryEv("users", db)>>]
    ELSE LET db_user == [id       |-> next_rowid(db.users),
                         username |-> user_data.username,
                         email    |-> user_data.email,
                         hashed_password |-> get_password_hash(user_data.password),
                         role     |-> "user"]
         IN [ret |-> {db_user}, exc |-> {},
             db  |-> [db EXCEPT !.users = @ \cup {db_user}],
             log |-> <<QueryEv("users", db), QueryEv("users", db),
                       CommitEv("insert", db)>>]

demo_users ==
    { [id |-> 1, username |-> "alice",   email |-> "alice@example.com",
       hashed_password |-> get_password_hash("password123"), role |-> "user"],
      [id |-> 2, username |-> "bob",     email |-> "bob@example.com",
       hashed_password |-> get_password_hash("password123"), role |-> "user"],
      [id |-> 3, username |-> "charlie", email |-> "charlie@example.com",
       hashed_password |-> get_password_hash("password123"), role |-> "user"],
      [id |-> 4, username |-> "diana",   email |-> "diana@example.com",
       hashed_password |-> get_password_hash("password123"), role |-> "user"],
      [id |-> 5, username |-> "admin",   email |-> "admin@example.com",
       hashed_password |-> get_password_hash("admin123"), role |-> "admin"] }

\* The users whose username is absent are added with their fixed ids and
\* committed together; the commit raises IntegrityError, and nothing is
\* stored, when an added row repeats the id or the email of a stored row
\* (users.id is the primary key, users.email is unique).
create_demo_users(db) ==
    LET new_users == {user_data \in demo_users :
                         get_user_by_username(db, user_data.username).ret = {}}
        clash == \E n \in new_users : \E u \in db.users :
                     n.id = u.id \/ n.email = u.email
    IN IF clash
       THEN [ret |-> {}, exc |-> {"IntegrityError"}, db |-> db,
             log |-> <<QueryEv("users", db)>>]
       ELSE [ret |-> {n.username : n \in new_users}, exc |-> {},
             db  |-> [db EXCEPT !.users = @ \cup new_users],
             log |-> <<QueryEv("users", db), CommitEv("insert", db)>>]

-----------------------------------------------------------------------------
(* Responses *)

Response(status, detail) ==
    [status |-> status, detail |-> detail, docs |-> {}, users |-> {}, token |-> {}]

\* raise HTTPException(status_code, detail)
HTTPException(status_code, detail) == Response(status_code, detail)

\* the request body parsed as DocumentCreate: title and content, any other
\* key of the body is dropped
DocumentCreate(body) == [title |-> body.title, content |-> body.content]

\* a handler's return value serialized with response_model DocumentResponse
DocumentResponse(docs) ==
    [status |-> 200, detail |-> "", docs |-> docs, users |-> {}, token |-> {}]

\* response_model UserResponse: id, username, email and role of the row
UserResponse(us) ==
    [status |-> 200, detail |-> "", docs |-> {}, token |-> {},
     users |-> {[id |-> u.id, username |-> u.username, email |-> u.email,
                 role |-> u.role] : u \in us}]

\* response_model Token: {"access_token": ..., "token_type": "bearer"}
TokenResponse(access_token) ==
    [status |-> 200, detail |-> "", docs |-> {}, users |-> {}, token |-> {access_token}]

-----------------------------------------------------------------------------
(* Bearer tokens.  A token is [key, expired, sub]: the key it is signed     *)
(* with ("malformed" for a string that is no JWT), whether its exp claim    *)
(* has passed, and its Optional sub claim.                                  *)

SECRET_KEY == "your_very_secure_secret_key_here_change_in_production"

\* src/test_mitigations.py: jwt.encode({"sub": str(user_id)}, SECRET_KEY)
create_token(user_id) ==
    [key |-> SECRET_KEY, expired |-> FALSE, sub |-> {str(user_id)}]

\* app/core/security.py is not in the repository: by the specification the
\* token carries the claims it is issued for, is signed with SECRET_KEY and
\* has an expiry that has not passed yet
create_access_token(data) ==
    [key |-> SECRET_KEY, expired |-> FALSE, sub |-> {data.sub}]

\* jose.jwt.decode: JWTError unless the signature verifies and exp has not passed
jwt_decode_ok(token, key) == token.key = key /\ ~token.expired

\* fastapi.security.HTTPBearer(): the Authorization header's credentials,
\* or 403 "Not authenticated" when the header is absent
bearer(request) ==
    IF request.authorization = {}
    THEN [creds |-> {}, exc |-> {HTTPException(403, "Not authenticated")}]
    ELSE [creds |-> request.authorization, exc |-> {}]

get_current_user_id_trusting(creds) ==
    IF creds.sub # {} /\ int_ok(The(creds.sub))
    THEN [user_id |-> {int(The(creds.sub))}, exc |-> {}]
    ELSE [user_id |-> {0}, exc |-> {}]

get_current_user_id(creds) ==
    IF ~jwt_decode_ok(creds, SECRET_KEY)
    THEN [user_id |-> {}, exc |-> {HTTPException(401, "Invalid token")}]
    ELSE IF creds.sub = {}
    THEN [user_id |-> {},
          exc |-> {HTTPException(401, "Invalid token: no user_id found")}]
    ELSE IF ~int_ok(The(creds.sub))
    THEN [user_id |-> {}, exc |-> {HTTPException(401, "Invalid token")}]
    ELSE [user_id |-> {int(The(creds.sub))}, exc |-> {}]

-----------------------------------------------------------------------------
(* app/api/endpoints/documents.py: the handler bodies.  Each returns        *)
(* [resp, db, log].                                                         *)

\* Variant that skips the role lookup: nobody is treated as an administrator.
is_admin_of_never(db, current_user_id) == FALSE

\* db.query(User).filter(User.id == current_user_id).first(), then
\* current_user.role == "admin" if current_user else False
is_admin_of(db, current_user_id) ==
    LET current_user == {u \in db.users : u.id = current_user_id}
    IN IF current_user # {} THEN The(current_user).role = "admin" ELSE FALSE

get_document_vulnerable(db, document_id) ==
    LET r == get_document_by_id(db, document_id) IN
    IF r.ret = {}
    THEN [resp |-> HTTPException(404, "Document not found"), db |-> r.db, log |-> r.log]
    ELSE [resp |-> DocumentResponse(r.ret), db |-> r.db, log |-> r.log]

get_document_secure(db, document_id, current_user_id) ==
    LET is_admin == is_admin_of(db, current_user_id)
        r == get_document_with_ownership_check(db, document_id, current_user_id, is_admin)
        l == <<QueryEv("users", db)>> \o r.log
    IN IF r.ret = {}
       THEN [resp |-> HTTPException(404, "Document not found"), db |-> r.db, log |-> l]
       ELSE [resp |-> DocumentResponse(r.ret), db |-> r.db, log |-> l]

get_my_documents(db, current_user_id) ==
    LET r == get_user_documents(db, current_user_id)
    IN [resp |-> DocumentResponse(r.ret), db |-> r.db, log |-> r.log]

\* Variant that leaves the filtering to the storage layer, where no row-level
\* policy is installed.
get_document_rls_unfiltered(db, document_id, current_user_id) ==
    get_document_vulnerable(db, document_id)

get_document_rls(db, document_id, current_user_id) ==
    LET is_admin == is_admin_of(db, current_user_id)
        r == get_document_with_ownership_check(db, document_id, current_user_id, is_admin)
        l == <<QueryEv("users", db)>> \o r.log
    IN IF r.ret = {}
       THEN [resp |-> HTTPException(404, "Document not found"), db |-> r.db, log |-> l]
       ELSE [resp |-> DocumentResponse(r.ret), db |-> r.db, log |-> l]

create_document_endpoint(db, document_data, current_user_id) ==
    LET r == create_document(db, document_data, current_user_id)
    IN [resp |-> DocumentResponse(r.ret), db |-> r.db, log |-> r.log]

update_document_endpoint(db, document_id, document_data, current_user_id) ==
    LET is_admin == is_admin_of(db, current_user_id)
        r == update_document(db, document_id, document_data, current_user_id, is_admin)
        l == <<QueryEv("users", db)>> \o r.log
    IN IF r.ret = {}
       THEN [resp |-> HTTPException(404, "Document not found"), db |-> r.db, log |-> l]
       ELSE [resp |-> DocumentResponse(r.ret), db |-> r.db, log |-> l]

delete_document_endpoint(db, document_id, current_user_id) ==
    LET is_admin == is_admin_of(db, current_user_id)
        r == delete_document(db, document_id, current_user_id, is_admin)
        l == <<QueryEv("users", db)>> \o r.log
    IN IF ~r.ret
       THEN [resp |-> HTTPException(404, "Document not found"), db |-> r.db, log |-> l]
       ELSE [resp |-> Response(200, "Document deleted successfully"),
             db |-> r.db, log |-> l]

setup_demo_documents(db) ==
    LET r == create_demo_documents(db)
    IN [resp |-> Response(200, "Demo documents created"), db |-> r.db, log |-> r.log]

(* app/api/endpoints/users.py and auth.py *)

\* an exception no handler catches becomes 500 Internal Server Error
setup_demo_data(db) ==
    LET r == create_demo_users(db)
    IN IF r.exc # {}
       THEN [resp |-> Response(500, "Internal Server Error"), db |-> r.db, log |-> r.log]
       ELSE [resp |-> Response(200, "Demo data created"), db |-> r.db, log |-> r.log]

\* app/core/auth.py
authenticate_user(db, username, password) ==
    LET user == {u \in db.users : u.username = username} IN
    IF user = {} THEN {}
    ELSE IF ~verify_password(password, The(user).hashed_password) THEN {}
    ELSE user

\* the token's sub claim is the username
login(db, user_credentials) ==
    LET user == authenticate_user(db, user_credentials.username,
                                  user_credentials.password)
        l == <<QueryEv("users", db)>>
    IN IF user = {}
       THEN [resp |-> HTTPException(401, "Incorrect credentials"), db |-> db, log |-> l]
       ELSE [resp |-> TokenResponse(create_access_token([sub |-> The(user).username])),
             db |-> db, log |-> l]

register_user(db, user) ==
    LET r == create_user(db, user)
    IN IF r.exc # {}
       THEN [resp |-> HTTPException(400, The(r.exc)), db |-> r.db, log |-> r.log]
       ELSE [resp |-> UserResponse(r.ret), db |-> r.db, log |-> r.log]

-----------------------------------------------------------------------------
(* Routing: app/api/api.py mounts the auth, users and documents routers in  *)
(* this order and each router keeps its routes in declaration order; the    *)
(* first route whose method and path pattern match serves the request.      *)

PARAM == "{document_id}"

routes ==
    << [method |-> "POST",   path |-> <<"auth", "register">>,            endpoint |-> "register_user"],
       [method |-> "POST",   path |-> <<"auth", "login">>,               endpoint |-> "login"],
       [method |-> "GET",    path |-> <<"users", "demo", "setup">>,      endpoint |-> "setup_demo_data"],
       [method |-> "GET",    path |-> <<"documents", "vulnerable", PARAM>>, endpoint |-> "get_document_vulnerable"],
       [method |-> "GET",    path |-> <<"documents", "secure", PARAM>>,  endpoint |-> "get_document_secure"],
       [method |-> "GET",    path |-> <<"documents", "secure", "me">>,   endpoint |-> "get_my_documents"],
       [method |-> "GET",    path |-> <<"documents", "rls", PARAM>>,     endpoint |-> "get_document_rls"],
       [method |-> "POST",   path |-> <<"documents", "">>,               endpoint |-> "create_document"],
       [method |-> "PUT",    path |-> <<"documents", PARAM>>,            endpoint |-> "update_document"],
       [method |-> "DELETE", path |-> <<"documents", PARAM>>,            endpoint |-> "delete_document"],
       [method |-> "GET",    path |-> <<"documents", "demo", "setup">>,  endpoint |-> "setup_demo_documents"] >>

\* a path parameter matches one non-empty segment
matches(route, request) ==
    /\ route.method = request.method
    /\ Len(route.path) = Len(request.path)
    /\ \A i \in 1..Len(route.path) :
          IF route.path[i] = PARAM THEN request.path[i] # ""
          ELSE route.path[i] = request.path[i]

routed(request) == \E i \in 1..Len(routes) : matches(routes[i], request)

route_of(request) ==
    LET i == CHOOSE k \in 1..Len(routes) :
                 /\ matches(routes[k], request)
                 /\ \A j \in 1..(k - 1) : ~matches(routes[j], request)
    IN routes[i]

\* the segment bound to {document_id}
path_param(route, request) ==
    LET i == CHOOSE k \in 1..Len(route.path) : route.path[k] = PARAM
    IN request.path[i]

-----------------------------------------------------------------------------
(* Dependency resolution and call of the matched endpoint (FastAPI): the    *)
(* dependencies run in signature order, current_user_id before db, and an   *)
(* HTTPException raised by one ends the request; then the path parameter is *)
(* validated as int (422 otherwise); then the handler body runs.            *)

\* the endpoints that declare current_user_id = Depends(get_current_user_id)
Protected == {"get_document_secure", "get_my_documents", "get_document_rls",
              "create_document", "update_document", "delete_document"}

\* the endpoints that declare document_id: int
WithDocumentId == {"get_document_vulnerable", "get_document_secure",
                   "get_document_rls", "update_document", "delete_document"}

\* Depends(get_current_user_id) with its sub-dependency Depends(bearer)
current_user_id_dependency(request) ==
    LET b == bearer(request) IN
    IF b.exc # {} THEN [user_id |-> {}, exc |-> b.exc]
    ELSE get_current_user_id(The(b.creds))

RequestValidationError == Response(422, "Unprocessable Entity")

\* [resp, db, log, opened]: opened tells whether get_db created the session
endpoint(request, db) ==
    LET name == route_of(request).endpoint
        auth == current_user_id_dependency(request)
        uid  == The(auth.user_id)
        seg  == path_param(route_of(request), request)
        id   == int(seg)
        call == CASE name = "register_user"          -> register_user(db, request.user_data)
                  [] name = "login"                  -> login(db, request.user_data)
                  [] name = "setup_demo_data"        -> setup_demo_data(db)
                  [] name = "setup_demo_documents"   -> setup_demo_documents(db)
                  [] name = "get_document_vulnerable" -> get_document_vulnerable(db, id)
                  [] name = "get_document_secure"    -> get_document_secure(db, id, uid)
                  [] name = "get_my_documents"       -> get_my_documents(db, uid)
                  [] name = "get_document_rls"       -> get_document_rls(db, id, uid)
                  [] name = "create_document"        ->
                        create_document_endpoint(db, DocumentCreate(request.document_data), uid)
                  [] name = "update_document"        ->
                        update_document_endpoint(db, id, request.document_data, uid)
                  [] name = "delete_document"        -> delete_document_endpoint(db, id, uid)
    IN IF name \in Protected /\ auth.exc # {}
       THEN [resp |-> The(auth.exc), db |-> db, log |-> <<>>, opened |-> FALSE]
       ELSE IF name \in WithDocumentId /\ ~int_ok(seg)
       THEN [resp |-> RequestValidationError, db |-> db, log |-> <<>>, opened |-> TRUE]
       ELSE [resp |-> call.resp, db |-> call.db, log |-> call.log, opened |-> TRUE]

-----------------------------------------------------------------------------
(* app/main.py and app/core/middleware.py *)

\* Starlette's add_middleware inserts at the front of the list: the
\* middleware added last is the outermost and runs first
add_middleware_append(stack, m) == Append(stack, m)

add_middleware(stack, m) == <<m>> \o stack

middleware_stack ==
    add_middleware(add_middleware(<<>>, "UserIDMiddleware"), "SetAppUserMiddleware")

DATABASE_URL == "sqlite:///./users.db"

\* a deployment sets DATABASE_URL in .env; the RLS middleware is written for
\* PostgreSQL
DatabaseUrls == {DATABASE_URL, "postgresql://app@db/app"}

\* SET app.user_id is PostgreSQL syntax; SQLite raises, and dispatch prints
\* the error and goes on
set_statement_ok == database_url # "sqlite:///./users.db"

Conns == 1..MaxConn

-----------------------------------------------------------------------------
(* Requests the clients send *)

RequesterIds == {1, 2, 5, 9}

ValidTokens == {create_token(u) : u \in RequesterIds}

MalformedToken == [key |-> "malformed", expired |-> FALSE, sub |-> {}]
WrongKeyToken  == [key |-> "attacker_key", expired |-> FALSE, sub |-> {"5"}]
ExpiredToken   == [key |-> SECRET_KEY, expired |-> TRUE, sub |-> {"1"}]
NoSubToken     == [key |-> SECRET_KEY, expired |-> FALSE, sub |-> {}]
NonIntSubToken == [key |-> SECRET_KEY, expired |-> FALSE, sub |-> {"alice"}]

BadTokens == {MalformedToken, WrongKeyToken, ExpiredToken, NoSubToken, NonIntSubToken}

\* Authorization header: absent, or Bearer <token>
Authorizations == {{}} \cup {{t} : t \in ValidTokens \cup {MalformedToken}}
FailingAuthorizations == {{}} \cup {{t} : t \in BadTokens}

DocSegments == {"1", "6"}

NoDocumentData == [title |-> None, content |-> None]
NoUserData == [username |-> None, email |-> None, password |-> None]

CreatePayloads == {[title |-> "Notes", content |-> "Body"],
                   [title |-> "Notes", content |-> "Body", owner_id |-> 5]}
UpdatePayloads == {[title |-> "Retitled", content |-> None],
                   [title |-> None, content |-> "Rewritten"],
                   [title |-> None, content |-> None]}
RegisterPayloads ==
    {[username |-> "5", email |-> "five@example.com", password |-> "secret5"],
     [username |-> "alice", email |-> "alice@example.com", password |-> "secret1"]}

\* UserLogin bodies: username and password
LoginPayloads ==
    {[username |-> "alice", email |-> None, password |-> "password123"],
     [username |-> "alice", email |-> None, password |-> "guess"],
     [username |-> "admin", email |-> None, password |-> "admin123"],
     [username |-> "5", email |-> None, password |-> "secret5"]}

Request(method, path, authorization, document_data, user_data) ==
    [method |-> method, path |-> path, authorization |-> authorization,
     document_data |-> document_data, user_data |-> user_data]

DocumentRequests(auths) ==
    {Request("GET", <<"documents", kind, seg>>, a, NoDocumentData, NoUserData) :
        kind \in {"secure", "rls"}, seg \in DocSegments, a \in auths}
    \cup {Request("GET", <<"documents", "secure", "me">>, a, NoDocumentData, NoUserData) :
        a \in auths}
    \cup {Request("POST", <<"documents", "">>, a, d, NoUserData) :
        a \in auths, d \in CreatePayloads}
    \cup {Request("PUT", <<"documents", seg>>, a, d, NoUserData) :
        seg \in DocSegments, a \in auths, d \in UpdatePayloads}
    \cup {Request("DELETE", <<"documents", seg>>, a, NoDocumentData, NoUserData) :
        seg \in DocSegments, a \in auths}

OpenRequests ==
    {Request("GET", <<"documents", "vulnerable", seg>>, a, NoDocumentData, NoUserData) :
        seg \in DocSegments, a \in {{}, {create_token(2)}}}
    \cup {Request("GET", <<"documents", "demo", "setup">>, {}, NoDocumentData, NoUserData),
          Request("GET", <<"users", "demo", "setup">>, {}, NoDocumentData, NoUserData)}
    \cup {Request("POST", <<"auth", "register">>, {}, NoDocumentData, u) :
        u \in RegisterPayloads}

Requests == DocumentRequests(Authorizations) \cup OpenRequests

NoRequest == Request("", <<>>, {}, NoDocumentData, NoUserData)

-----------------------------------------------------------------------------
(* The state machine: one request in flight, passing the middlewares in     *)
(* stack order and then the router.                                         *)

NoDecision == [resource_owner_id |-> 0, current_user_id |-> 0,
               is_admin |-> FALSE, ret |-> {}]

Workers == 1..MaxWorkers

\* a worker that handles no request
NoWorker == [pc |-> "idle", mw_i |-> 0, req |-> NoRequest, state_user_id |-> {},
             conn |-> 0, loaded |-> {}, ctx_seen |-> {}, order |-> 0, resp |-> {}]

Init ==
    /\ users = {}
    /\ documents = {}
    /\ conn_ctx = [c \in Conns |-> {}]
    /\ pc = "idle"
    /\ mw_i = 0
    /\ req = NoRequest
    /\ state_user_id = {}
    /\ n_sessions = 0
    /\ log = <<>>
    /\ resp = {}
    /\ n_created = 0
    /\ n_registered = 0
    /\ auth_seen = {}
    /\ decision = NoDecision
    /\ issued = {}
    /\ workers = [w \in Workers |-> NoWorker]
    /\ database_url = DATABASE_URL

\* what an authentication failure looks like from outside
AuthFailure(r) == r.status \in {401, 403}

Accept(r) ==
    /\ pc = "idle"
    /\ routed(r)
    /\ route_of(r).endpoint = "create_document" => n_created < MaxCreates
    /\ route_of(r).endpoint = "register_user" => n_registered < MaxRegisters
    /\ req' = r
    /\ pc' = "middleware"
    /\ mw_i' = 1
    /\ state_user_id' = {}
    /\ n_sessions' = 0
    /\ log' = <<>>
    /\ resp' = {}
    /\ UNCHANGED <<users, documents, conn_ctx, n_created, n_registered, auth_seen, decision>>
    /\ UNCHANGED extra

\* a client sends a request
Receive == \E r \in Requests : Accept(r)

Advance ==
    /\ mw_i' = mw_i + 1
    /\ pc' = IF mw_i = Len(middleware_stack) THEN "router" ELSE "middleware"

\* SetAppUserMiddleware.dispatch up to call_next
SetAppUserMiddlewareDispatch ==
    /\ pc = "middleware"
    /\ middleware_stack[mw_i] = "SetAppUserMiddleware"
    /\ IF truthy(state_user_id)
       THEN /\ n_sessions' = n_sessions + 1
            /\ \E c \in Conns :
                  IF set_statement_ok
                  THEN /\ conn_ctx' = [conn_ctx EXCEPT ![c] = state_user_id]
                       /\ log' = Append(log, BindEv(The(state_user_id), n_sessions + 1))
                  ELSE UNCHANGED <<conn_ctx, log>>
       ELSE UNCHANGED <<n_sessions, conn_ctx, log>>
    /\ Advance
    /\ UNCHANGED <<users, documents, req, state_user_id, resp, n_created,
                   n_registered, auth_seen, decision>>
    /\ UNCHANGED extra

\* UserIDMiddleware.dispatch up to call_next
UserIDMiddlewareDispatch ==
    /\ pc = "middleware"
    /\ middleware_stack[mw_i] = "UserIDMiddleware"
    /\ IF req.authorization # {}
       THEN LET r == get_current_user_id(The(req.authorization))
            IN state_user_id' = IF r.exc = {} THEN r.user_id ELSE state_user_id
       ELSE UNCHANGED state_user_id
    /\ Advance
    /\ UNCHANGED <<users, documents, conn_ctx, req, n_sessions, log, resp,
                   n_created, n_registered, auth_seen, decision>>
    /\ UNCHANGED extra

\* the router calls the endpoint `name` and the response is sent
Serve(name) ==
    /\ pc = "router"
    /\ route_of(req).endpoint = name
    /\ LET db == [session |-> n_sessions + 1, users |-> users, documents |-> documents]
           r  == endpoint(req, db)
       IN /\ resp' = {r.resp}
          /\ users' = r.db.users
          /\ documents' = r.db.documents
          /\ log' = log \o r.log
          /\ n_sessions' = IF r.opened THEN n_sessions + 1 ELSE n_sessions
          /\ n_created' = IF name = "create_document" THEN n_created + 1 ELSE n_created
          /\ n_registered' = IF name = "register_user" /\ r.resp.status = 200
                             THEN n_registered + 1 ELSE n_registered
    /\ pc' = "done"
    /\ UNCHANGED <<conn_ctx, mw_i, req, state_user_id, auth_seen, decision>>
    /\ UNCHANGED extra

RegisterUser         == Serve("register_user")
Login                == Serve("login")
SetupDemoData        == Serve("setup_demo_data")
SetupDemoDocuments   == Serve("setup_demo_documents")
GetDocumentVulnerable == Serve("get_document_vulnerable")
GetDocumentSecure    == Serve("get_document_secure")
GetMyDocuments       == Serve("get_my_documents")
GetDocumentRls       == Serve("get_document_rls")
CreateDocument       == Serve("create_document")
UpdateDocument       == Serve("update_document")
DeleteDocument       == Serve("delete_document")

Endpoints ==
    \/ RegisterUser
    \/ SetupDemoData
    \/ SetupDemoDocuments
    \/ GetDocumentVulnerable
    \/ GetDocumentSecure
    \/ GetMyDocuments
    \/ GetDocumentRls
    \/ CreateDocument
    \/ UpdateDocument
    \/ DeleteDocument

\* a session on the tables as they are
CurrentSession == [session |-> 1, users |-> users, documents |-> documents]

\* the response has been sent: get_db's finally closes the session and the
\* request's objects are dropped
Finish ==
    /\ pc = "done"
    /\ pc' = "idle"
    /\ mw_i' = 0
    /\ req' = NoRequest
    /\ state_user_id' = {}
    /\ n_sessions' = 0
    /\ log' = <<>>
    /\ resp' = {}
    /\ UNCHANGED <<users, documents, conn_ctx, n_created, n_registered, decision>>
    /\ UNCHANGED <<workers, database_url>>

Close == Finish /\ UNCHANGED <<auth_seen, issued>>

Next ==
    \/ Receive
    \/ SetAppUserMiddlewareDispatch
    \/ UserIDMiddlewareDispatch
    \/ Endpoints
    \/ Close

Spec == Init /\ [][Next]_vars

-----------------------------------------------------------------------------
(* The authorization policy on its own: every decision over the ids of the  *)
(* model and both values of the admin flag.                                 *)

InitPolicy ==
    /\ Init!1 /\ Init!2 /\ Init!3 /\ Init!4 /\ Init!5 /\ Init!6 /\ Init!7
    /\ Init!8 /\ Init!9 /\ Init!10 /\ Init!11 /\ Init!12 /\ Init!13
    /\ decision \in [resource_owner_id : 0..MaxInt, current_user_id : 0..MaxInt,
                     is_admin : BOOLEAN, ret : {{}}]
    /\ Init!15 /\ Init!16 /\ Init!17

\* verify_ownership is called on the arguments drawn
Decide ==
    /\ decision.ret = {}
    /\ decision' = [decision EXCEPT !.ret =
                       {verify_ownership(decision.resource_owner_id,
                                         decision.current_user_id,
                                         decision.is_admin)}]
    /\ UNCHANGED <<users, documents, conn_ctx, pc, mw_i, req, state_user_id,
                   n_sessions, log, resp, n_created, n_registered, auth_seen>>
    /\ UNCHANGED extra

SpecPolicy == InitPolicy /\ [][Decide]_vars

-----------------------------------------------------------------------------
(* Requests with failing credentials, against the demo data: every kind of  *)
(* failing Authorization header, and the administrator's token so that the  *)
(* store changes in between.  The latest authentication failure is kept.    *)

InitDemo ==
    /\ users = demo_users
    /\ documents = demo_documents
    /\ Init!3 /\ Init!4 /\ Init!5 /\ Init!6 /\ Init!7
    /\ Init!8 /\ Init!9 /\ Init!10 /\ Init!11 /\ Init!12 /\ Init!13 /\ Init!14
    /\ Init!15 /\ Init!16 /\ Init!17

ReceiveAuth ==
    \E r \in DocumentRequests(FailingAuthorizations \cup {{create_token(5)}}) : Accept(r)

CloseRemember ==
    /\ Finish
    /\ auth_seen' = IF AuthFailure(The(resp))
                    THEN {[status |-> The(resp).status, detail |-> The(resp).detail]}
                    ELSE auth_seen
    /\ UNCHANGED issued

NextAuth ==
    \/ ReceiveAuth
    \/ SetAppUserMiddlewareDispatch
    \/ UserIDMiddlewareDispatch
    \/ GetDocumentSecure
    \/ GetMyDocuments
    \/ GetDocumentRls
    \/ CreateDocument
    \/ UpdateDocument
    \/ DeleteDocument
    \/ CloseRemember

SpecAuth == InitDemo /\ [][NextAuth]_vars

-----------------------------------------------------------------------------
(* Clients that log in: against the demo data, clients register, log in and  *)
(* send the tokens that login returned with requests to the document         *)
(* endpoints.  issued keeps each returned token with the id of the principal *)
(* whose credentials were presented.                                         *)

CredentialRequests ==
    {Request("POST", <<"auth", "register">>, {}, NoDocumentData, u) :
        u \in RegisterPayloads}
    \cup {Request("POST", <<"auth", "login">>, {}, NoDocumentData, u) :
        u \in LoginPayloads}

ReceiveCredentials == \E r \in CredentialRequests : Accept(r)

ReceiveIssued ==
    \E i \in issued : \E r \in DocumentRequests({{i.token}}) : Accept(r)

\* the client keeps the access_token of a successful login
CloseKeepToken ==
    /\ Finish
    /\ issued' = IF route_of(req).endpoint = "login" /\ The(resp).token # {}
                 THEN issued \cup
                      {[token |-> The(The(resp).token),
                        principal |-> The(authenticate_user(
                                             CurrentSession, req.user_data.username,
                                             req.user_data.password)).id]}
                 ELSE issued
    /\ UNCHANGED auth_seen

NextLogin ==
    \/ ReceiveCredentials
    \/ ReceiveIssued
    \/ SetAppUserMiddlewareDispatch
    \/ UserIDMiddlewareDispatch
    \/ RegisterUser
    \/ Login
    \/ GetDocumentSecure
    \/ GetMyDocuments
    \/ GetDocumentRls
    \/ CreateDocument
    \/ UpdateDocument
    \/ DeleteDocument
    \/ CloseKeepToken

SpecLogin == InitDemo /\ [][NextLogin]_vars

-----------------------------------------------------------------------------
(* Requests handled concurrently.  Each worker handles one request; the      *)
(* workers share the tables and the connection pool and interleave between   *)
(* the statements they send to the database (several server processes or     *)
(* threads on one database).  A handler that writes runs in two steps: the   *)
(* reads up to the ownership check, with the loaded object kept in its       *)
(* Session, and then flush, commit and refresh.  The Session keeps its       *)
(* connection from the first query to the commit.                            *)

\* UNIQUE and PRIMARY KEY constraints of table users: no added row repeats
\* the id, the username or the email of a stored row or of another added row
integrity_unchecked(rows, added) == TRUE

integrity_ok(rows, added) ==
    \A n \in added : \A u \in (rows \cup added) \ {n} :
        n.id # u.id /\ n.username # u.username /\ n.email # u.email

InternalServerError == Response(500, "Internal Server Error")

\* what the read phase of a writing handler leaves in its Session: the
\* loaded document, the rows to insert, or nothing when the handler returns
\* or raises before it writes
pending(request, db) ==
    LET name == route_of(request).endpoint
        auth == current_user_id_dependency(request)
        uid  == The(auth.user_id)
        seg  == path_param(route_of(request), request)
    IN IF name \in Protected /\ auth.exc # {} THEN {}
       ELSE IF name \in WithDocumentId /\ ~int_ok(seg) THEN {}
       ELSE CASE name \in {"update_document", "delete_document"} ->
                    get_document_with_ownership_check(
                        db, int(seg), uid, is_admin_of(db, uid)).ret
              [] name = "register_user" ->
                    IF create_user(db, request.user_data).exc = {}
                    THEN {request.user_data} ELSE {}
              [] name = "setup_demo_data" ->
                    {{user_data \in demo_users :
                        get_user_by_username(db, user_data.username).ret = {}}}
              [] OTHER -> {}

\* Variant that writes the loaded object back whether or not its row is
\* still stored.
flush_update_upsert(db, document, document_data) ==
    LET new == [document EXCEPT
                  !.title   = IF document_data.title # None
                              THEN document_data.title ELSE @,
                  !.content = IF document_data.content # None
                              THEN document_data.content ELSE @]
    IN [resp |-> DocumentResponse({new}),
        db |-> [db EXCEPT !.documents = {d \in @ : d.id # document.id} \cup {new}]]

\* db.commit() and db.refresh(document) of update_document: the UPDATE sets
\* the columns whose value differs from the loaded one and raises
\* StaleDataError when it matches no row; without such a column no UPDATE is
\* sent, and refresh raises when the row is gone
flush_update(db, document, document_data) ==
    LET changed == {f \in {"title", "content"} :
                       document_data[f] # None /\ document_data[f] # document[f]}
        row == {d \in db.documents : d.id = document.id}
        new == [The(row) EXCEPT
                  !.title   = IF "title" \in changed THEN document_data.title ELSE @,
                  !.content = IF "content" \in changed THEN document_data.content ELSE @]
    IN IF row = {} THEN [resp |-> InternalServerError, db |-> db]
       ELSE IF changed = {} THEN [resp |-> DocumentResponse(row), db |-> db]
       ELSE [resp |-> DocumentResponse({new}),
             db |-> [db EXCEPT !.documents = (@ \ row) \cup {new}]]

\* db.delete(document); db.commit(): DELETE ... WHERE id; a delete that
\* matches no row is a warning only
flush_delete(db, document) ==
    [resp |-> Response(200, "Document deleted successfully"),
     db |-> [db EXCEPT !.documents = {d \in @ : d.id # document.id}]]

\* db.add(db_user); db.commit() of create_user
flush_create_user(db, user_data) ==
    LET db_user == The(create_user([db EXCEPT !.users = {}], user_data).ret)
        row == [db_user EXCEPT !.id = next_rowid(db.users)]
    IN IF integrity_ok(db.users, {row})
       THEN [resp |-> UserResponse({row}), db |-> [db EXCEPT !.users = @ \cup {row}]]
       ELSE [resp |-> InternalServerError, db |-> db]

\* db.commit() of create_demo_users
flush_demo_users(db, new_users) ==
    IF integrity_ok(db.users, new_users)
    THEN [resp |-> Response(200, "Demo data created"),
          db |-> [db EXCEPT !.users = @ \cup new_users]]
    ELSE [resp |-> InternalServerError, db |-> db]

free(c) == \A v \in Workers : workers[v].conn # c

UpdatePayloadsConc == {[title |-> "Retitled", content |-> None],
                       [title |-> "Alice's Secret Document", content |-> None],
                       [title |-> None, content |-> "Rewritten"]}

ConcRequests ==
    {Request("GET", <<"documents", "secure", "1">>, {create_token(u)},
             NoDocumentData, NoUserData) : u \in {1, 2}}
    \cup {Request("PUT", <<"documents", "1">>, {create_token(u)}, d, NoUserData) :
            u \in {1, 5}, d \in UpdatePayloadsConc}
    \cup {Request("DELETE", <<"documents", "1">>, {create_token(5)},
                  NoDocumentData, NoUserData)}
    \cup {Request("GET", <<"users", "demo", "setup">>, {}, NoDocumentData, NoUserData)}
    \cup {Request("POST", <<"auth", "register">>, {}, NoDocumentData, u) :
            u \in RegisterPayloads}

WorkerVars == <<pc, mw_i, req, state_user_id, n_sessions, log, resp, n_created,
                n_registered, auth_seen, decision, issued, database_url>>

WStart(w, r) ==
    /\ workers[w].pc = "idle"
    /\ workers' = [workers EXCEPT ![w] =
                      [NoWorker EXCEPT !.pc = "middleware", !.mw_i = 1, !.req = r]]
    /\ UNCHANGED <<users, documents, conn_ctx>>
    /\ UNCHANGED WorkerVars

\* SetAppUserMiddleware.dispatch up to call_next: SessionLocal() takes a
\* connection of the pool, and db.close() returns it with what SET left on it
WSetAppUser(w) ==
    LET me == workers[w] IN
    /\ me.pc = "middleware"
    /\ middleware_stack[me.mw_i] = "SetAppUserMiddleware"
    /\ IF truthy(me.state_user_id)
       THEN \E c \in Conns :
               /\ free(c)
               /\ conn_ctx' = IF set_statement_ok
                              THEN [conn_ctx EXCEPT ![c] = me.state_user_id]
                              ELSE conn_ctx
       ELSE UNCHANGED conn_ctx
    /\ workers' = [workers EXCEPT
                      ![w].mw_i = me.mw_i + 1,
                      ![w].pc = IF me.mw_i = Len(middleware_stack)
                                THEN "router" ELSE "middleware"]
    /\ UNCHANGED <<users, documents>>
    /\ UNCHANGED WorkerVars

\* UserIDMiddleware.dispatch up to call_next
WUserID(w) ==
    LET me == workers[w]
        r  == get_current_user_id(The(me.req.authorization))
    IN
    /\ me.pc = "middleware"
    /\ middleware_stack[me.mw_i] = "UserIDMiddleware"
    /\ workers' = [workers EXCEPT
                      ![w].state_user_id =
                          IF me.req.authorization # {} /\ r.exc = {}
                          THEN r.user_id ELSE @,
                      ![w].mw_i = me.mw_i + 1,
                      ![w].pc = IF me.mw_i = Len(middleware_stack)
                                THEN "router" ELSE "middleware"]
    /\ UNCHANGED <<users, documents, conn_ctx>>
    /\ UNCHANGED WorkerVars

\* dependencies and the handler up to its write: the reads run on a
\* connection the Session takes from the pool
WBegin(w) ==
    LET me == workers[w]
        db == [session |-> w, users |-> users, documents |-> documents]
        r  == endpoint(me.req, db)
        p  == pending(me.req, db)
    IN
    /\ me.pc = "router"
    /\ \E c \in Conns :
          /\ free(c)
          /\ LET seen == IF \E i \in 1..Len(r.log) :
                               r.log[i].ev = "query" /\ r.log[i].what = "documents"
                         THEN {conn_ctx[c]} ELSE {}
             IN workers' = [workers EXCEPT ![w] =
                   IF p = {}
                   THEN [me EXCEPT !.pc = "done", !.resp = {r.resp}, !.ctx_seen = seen]
                   ELSE [me EXCEPT !.pc = "commit", !.loaded = p, !.conn = c,
                                   !.ctx_seen = seen]]
    /\ UNCHANGED <<users, documents, conn_ctx>>
    /\ UNCHANGED WorkerVars

\* flush, commit and refresh of the handler, and the response
WCommit(w) ==
    LET me   == workers[w]
        db   == [session |-> w, users |-> users, documents |-> documents]
        name == route_of(me.req).endpoint
        r    == CASE name = "update_document" ->
                        flush_update(db, The(me.loaded), me.req.document_data)
                  [] name = "delete_document" -> flush_delete(db, The(me.loaded))
                  [] name = "register_user" -> flush_create_user(db, The(me.loaded))
                  [] name = "setup_demo_data" -> flush_demo_users(db, The(me.loaded))
    IN
    /\ me.pc = "commit"
    /\ users' = r.db.users
    /\ documents' = r.db.documents
    /\ workers' = [workers EXCEPT ![w] =
                      [me EXCEPT !.pc = "done", !.resp = {r.resp}, !.conn = 0,
                                 !.order = 1 + Cardinality({v \in Workers :
                                                               workers[v].order > 0})]]
    /\ UNCHANGED conn_ctx
    /\ UNCHANGED WorkerVars

ConcReceive    == \E w \in Workers : \E r \in ConcRequests : WStart(w, r)
ConcSetAppUser == \E w \in Workers : WSetAppUser(w)
ConcUserID     == \E w \in Workers : WUserID(w)
ConcBegin      == \E w \in Workers : WBegin(w)
ConcCommit     == \E w \in Workers : WCommit(w)

\* the store is empty or holds the demo data; the deployment is on SQLite or
\* on PostgreSQL
InitConc ==
    /\ users \in {{}, demo_users}
    /\ documents = IF users = {} THEN {} ELSE demo_documents
    /\ Init!3 /\ Init!4 /\ Init!5 /\ Init!6 /\ Init!7
    /\ Init!8 /\ Init!9 /\ Init!10 /\ Init!11 /\ Init!12 /\ Init!13 /\ Init!14
    /\ Init!15 /\ Init!16
    /\ database_url \in DatabaseUrls

NextConc ==
    \/ ConcReceive
    \/ ConcSetAppUser
    \/ ConcUserID
    \/ ConcBegin
    \/ ConcCommit

SpecConc == InitConc /\ [][NextConc]_vars

-----------------------------------------------------------------------------
(* Vocabulary of the properties *)

\* the stored role of principal U is admin
IsAdmin(U) == \E u \in users : u.id = U /\ u.role = "admin"

\* a session on the store as it is
CurrentDb == [session |-> 1, users |-> users, documents |-> documents]

\* Authorization: Bearer <token of principal U>
TokenOf(U) == {create_token(U)}

NotFound == Response(404, "Document not found")

FetchRequest(kind, id, a) ==
    Request("GET", <<"documents", kind, str(id)>>, a, NoDocumentData, NoUserData)
UpdateRequest(id, a, d) == Request("PUT", <<"documents", str(id)>>, a, d, NoUserData)
DeleteRequest(id, a) ==
    Request("DELETE", <<"documents", str(id)>>, a, NoDocumentData, NoUserData)

\* document R with the fields payload d supplies
Modified(R, d) ==
    [id |-> R.id, owner_id |-> R.owner_id,
     title   |-> IF d.title = None THEN R.title ELSE d.title,
     content |-> IF d.content = None THEN R.content ELSE d.content]

\* fetch, update and delete of R with Authorization a all succeed
AllSucceed(R, a) ==
    /\ endpoint(FetchRequest("secure", R.id, a), CurrentDb).resp = DocumentResponse({R})
    /\ \A d \in UpdatePayloads :
          LET r == endpoint(UpdateRequest(R.id, a, d), CurrentDb)
          IN /\ r.resp = DocumentResponse({Modified(R, d)})
             /\ r.db.documents = (documents \ {R}) \cup {Modified(R, d)}
    /\ LET r == endpoint(DeleteRequest(R.id, a), CurrentDb)
       IN /\ r.resp.status = 200
          /\ r.db.documents = documents \ {R}

\* the request in flight and its requester
Serving(name) == pc = "done" /\ route_of(req).endpoint = name
Target == {R \in documents : str(R.id) = path_param(route_of(req), req)}

-----------------------------------------------------------------------------
(* C1: verify_ownership returns True exactly when the owner id equals the   *)
(* requester id or the admin flag is set, and False otherwise, for every    *)
(* owner id, requester id and admin flag.                                   *)
C1_VerifyOwnership ==
    \A b \in decision.ret :
        /\ b \in BOOLEAN
        /\ b <=> (decision.resource_owner_id = decision.current_user_id
                  \/ decision.is_admin)

C1_Witness ==
    /\ decision.ret = {TRUE}
    /\ decision.resource_owner_id # decision.current_user_id
    /\ decision.is_admin

(* C2: between requests, for every stored document R and every requester U  *)
(* that is neither R's owner nor an administrator, the secure fetch of R by *)
(* U answers 404 Document not found, and the vulnerable fetch of R answers  *)
(* R, owner id included, whatever Authorization header it carries.          *)
C2_SecureDeniesVulnerableReturns ==
    pc = "idle" =>
    \A R \in documents : \A U \in RequesterIds :
        (U # R.owner_id /\ ~IsAdmin(U)) =>
            /\ endpoint(FetchRequest("secure", R.id, TokenOf(U)), CurrentDb).resp = NotFound
            /\ \A a \in Authorizations \cup FailingAuthorizations :
                  endpoint(FetchRequest("vulnerable", R.id, a), CurrentDb).resp
                      = DocumentResponse({R})

C2_Witness ==
    /\ Serving("get_document_secure")
    /\ req.authorization = TokenOf(2)
    /\ The(resp) = NotFound
    /\ \E R \in Target :
          /\ R.owner_id = 1
          /\ endpoint(FetchRequest("vulnerable", R.id, TokenOf(2)), CurrentDb).resp
                = DocumentResponse({R})

(* C3: between requests, for every stored document R, the secure fetch, the *)
(* update (with any payload) and the delete of R requested with the token   *)
(* of R's owner succeed: the fetch answers R, the update answers and stores *)
(* R with the supplied fields, the delete removes R.                        *)
C3_OwnerSucceeds ==
    pc = "idle" => \A R \in documents : AllSucceed(R, TokenOf(R.owner_id))

C3_Witness ==
    /\ Serving("update_document")
    /\ The(resp).status = 200
    /\ \E R \in The(resp).docs :
          /\ req.authorization = TokenOf(R.owner_id)
          /\ ~IsAdmin(R.owner_id)
          /\ R.title = "Retitled"
          /\ R.content = "Body"
          /\ R \in documents

(* C4: between requests, for every stored document R and every requester    *)
(* whose stored role is admin, secure fetch, update and delete of R         *)
(* succeed, whoever owns R.                                                 *)
C4_AdminSucceeds ==
    pc = "idle" =>
    \A R \in documents : \A U \in RequesterIds :
        IsAdmin(U) => AllSucceed(R, TokenOf(U))

C4_Witness ==
    /\ Serving("update_document")
    /\ req.authorization = TokenOf(5)
    /\ IsAdmin(5)
    /\ The(resp).status = 200
    /\ \E R \in The(resp).docs : R.owner_id # 5 /\ R.content = "Rewritten" /\ R \in documents

(* C5: between requests, an update (with any payload) or a delete of a      *)
(* stored document R by a requester that is neither its owner nor an        *)
(* administrator answers 404 Document not found and leaves the documents    *)
(* table as it was.                                                         *)
C5_DeniedMutationLeavesStore ==
    pc = "idle" =>
    \A R \in documents : \A U \in RequesterIds :
        (U # R.owner_id /\ ~IsAdmin(U)) =>
            /\ \A d \in UpdatePayloads :
                  LET r == endpoint(UpdateRequest(R.id, TokenOf(U), d), CurrentDb)
                  IN r.resp = NotFound /\ r.db.documents = documents
            /\ LET r == endpoint(DeleteRequest(R.id, TokenOf(U)), CurrentDb)
               IN r.resp = NotFound /\ r.db.documents = documents

C5_Witness ==
    /\ Serving("delete_document")
    /\ The(resp) = NotFound
    /\ \E R \in Target : \E U \in RequesterIds :
          /\ req.authorization = TokenOf(U)
          /\ U # R.owner_id
          /\ ~IsAdmin(U)
          /\ R.title = "Retitled"

(* C6: between requests, for a requester U that is no administrator and a   *)
(* stored document R of another owner, each of secure fetch, Mode B fetch,  *)
(* update and delete of R's id gets the response it would get if R were not *)
(* stored, and that response carries no document and none of R's fields.    *)
C6_DenialLooksLikeAbsence ==
    pc = "idle" =>
    \A R \in documents : \A U \in RequesterIds :
        (U # R.owner_id /\ ~IsAdmin(U)) =>
            LET without == [CurrentDb EXCEPT !.documents = @ \ {R}]
                probes  == {FetchRequest("secure", R.id, TokenOf(U)),
                            FetchRequest("rls", R.id, TokenOf(U)),
                            DeleteRequest(R.id, TokenOf(U))}
                           \cup {UpdateRequest(R.id, TokenOf(U), d) : d \in UpdatePayloads}
            IN \A q \in probes :
                  /\ endpoint(q, CurrentDb).resp = endpoint(q, without).resp
                  /\ endpoint(q, CurrentDb).resp.docs = {}
                  /\ endpoint(q, CurrentDb).resp.detail
                        \notin {R.title, R.content, str(R.owner_id), str(R.id)}

C6_Witness ==
    /\ Serving("get_document_rls")
    /\ The(resp) = NotFound
    /\ \E R \in Target : \E U \in RequesterIds :
          /\ req.authorization = TokenOf(U)
          /\ U # R.owner_id
          /\ ~IsAdmin(U)
          /\ endpoint(req, [CurrentDb EXCEPT !.documents = @ \ {R}]).resp = The(resp)

(* C7: between requests, a delete of an id that is not stored answers 404   *)
(* Document not found for every requester, a second identical delete        *)
(* answers the same, and neither changes the documents table.               *)
C7_DeleteAbsentIdempotent ==
    pc = "idle" =>
    \A id \in 1..MaxInt : \A U \in RequesterIds :
        (\A R \in documents : R.id # id) =>
            LET q      == DeleteRequest(id, TokenOf(U))
                first  == endpoint(q, CurrentDb)
                second == endpoint(q, first.db)
            IN /\ first.resp = NotFound
               /\ first.db.documents = documents
               /\ second.resp = NotFound
               /\ second.db.documents = documents

\* document 1 was stored and has been deleted (document 2 is stored only
\* after document 1 was), and the delete of 1 is answered 404
C7_Witness ==
    /\ Serving("delete_document")
    /\ path_param(route_of(req), req) = "1"
    /\ req.authorization = TokenOf(1)
    /\ The(resp) = NotFound
    /\ Target = {}
    /\ \E R \in documents : R.id = 2

(* C8: a request to a protected document endpoint (secure fetch, Mode B     *)
(* fetch, list mine, create, update, delete) whose Authorization header is  *)
(* absent or carries a token that fails verification is answered with an    *)
(* authentication failure, and serving it queries no table, evaluates no    *)
(* ownership check, commits nothing and leaves both tables as they were.    *)
C8_UnauthenticatedRejectedFirst ==
    [][ ( /\ pc = "router"
          /\ route_of(req).endpoint \in Protected
          /\ req.authorization \in FailingAuthorizations )
        => ( /\ pc' = "done"
             /\ AuthFailure(The(resp'))
             /\ documents' = documents
             /\ users' = users
             /\ \A i \in 1..Len(log') :
                   log'[i].ev \notin {"query", "verify_ownership", "commit"} ) ]_vars

C8_Witness ==
    /\ Serving("delete_document")
    /\ req.authorization = {ExpiredToken}
    /\ AuthFailure(The(resp))
    /\ Target # {}
    /\ log = <<>>

(* C9: all authentication failures look the same from outside: whenever a   *)
(* request is answered with an authentication failure, its status and its   *)
(* detail equal those of the latest earlier authentication failure.         *)
C9_AuthFailuresUniform ==
    (pc = "done" /\ AuthFailure(The(resp))) =>
        \A f \in auth_seen :
            f.status = The(resp).status /\ f.detail = The(resp).detail

\* Place of a middleware in the stack: 1 is the outermost, which runs first.
Position(m) == CHOOSE i \in 1..Len(middleware_stack) : middleware_stack[i] = m

(* C10: for every request with a valid bearer token, app.user_id is bound   *)
(* to the requester's id before the request's first query of the documents  *)
(* table, on the session that executes that query; and the middleware that  *)
(* extracts the user id runs before the middleware that binds it.           *)
C10_ContextBoundBeforeQuery ==
    ( /\ pc = "done"
      /\ req.authorization # {}
      /\ get_current_user_id(The(req.authorization)).exc = {} )
    => /\ Position("UserIDMiddleware") < Position("SetAppUserMiddleware")
       /\ LET uid == The(get_current_user_id(The(req.authorization)).user_id)
          IN \A i \in 1..Len(log) :
                (log[i].ev = "query" /\ log[i].what = "documents") =>
                    \E j \in 1..(i - 1) : log[j] = BindEv(uid, log[i].session)

-----------------------------------------------------------------------------
\* the requester id a worker's request resolves to
RequesterOf(w) == current_user_id_dependency(workers[w].req).user_id

QueriedUnbound ==
    \E i \in 1..Len(log) :
        /\ log[i].ev = "query" /\ log[i].what = "documents"
        /\ \A j \in 1..(i - 1) :
              ~(log[j].ev = "bind" /\ log[j].session = log[i].session)

(* C12: whenever a request handler has queried the documents table on a      *)
(* session whose principal context is unset, the query gave no rows or an    *)
(* error, so that the response carries no document owned by a principal      *)
(* other than the requester.                                                 *)
C12_UnboundContextReturnsNothing ==
    (pc = "done" /\ QueriedUnbound) =>
        \A d \in The(resp).docs :
            d.owner_id \in current_user_id_dependency(req).user_id

(* C13: between requests, for every Authorization header and every document  *)
(* id, the Mode B fetch answers what the Mode A secure fetch answers (the    *)
(* same document, the same 404 or the same authentication failure), with no  *)
(* principal context bound, and a document it returns is owned by the        *)
(* requester unless the requester is an administrator.                       *)
C13_RlsEqualsSecure ==
    pc = "idle" =>
    \A id \in 1..MaxInt : \A a \in Authorizations \cup FailingAuthorizations :
        LET rls    == endpoint(FetchRequest("rls", id, a), CurrentDb)
            secure == endpoint(FetchRequest("secure", id, a), CurrentDb)
        IN /\ rls.resp = secure.resp
           /\ rls.db = CurrentDb
           /\ \A i \in 1..Len(rls.log) : rls.log[i].ev # "bind"
           /\ \A d \in rls.resp.docs : \A U \in current_user_id_dependency(
                                               FetchRequest("rls", id, a)).user_id :
                 d.owner_id = U \/ IsAdmin(U)

\* the owner, who is no administrator, has fetched a document through Mode B
\* with no context bound, while a document of another owner is stored
C13_Witness ==
    /\ Serving("get_document_rls")
    /\ QueriedUnbound
    /\ \E R \in Target :
          /\ req.authorization = TokenOf(R.owner_id)
          /\ ~IsAdmin(R.owner_id)
          /\ The(resp) = DocumentResponse({R})
          /\ The(resp) = endpoint(FetchRequest("secure", R.id, req.authorization),
                                  CurrentDb).resp
          /\ \E other \in documents : other.owner_id # R.owner_id

(* C14: in every step, a document that is stored after the step either was  *)
(* stored before it with the same id and the same owner_id, or is new and    *)
(* was made by the create operation with the authenticated requester's id    *)
(* as owner_id (whatever the request body holds) or by the demo setup with   *)
(* the owner the demo data gives it.                                         *)
C14_OwnershipFixed ==
    [][ \A d \in documents' :
           \/ \E e \in documents : e.id = d.id /\ e.owner_id = d.owner_id
           \/ /\ \A e \in documents : e.id # d.id
              /\ pc = "router"
              /\ \/ /\ route_of(req).endpoint = "create_document"
                    /\ d.owner_id \in current_user_id_dependency(req).user_id
                 \/ /\ route_of(req).endpoint = "setup_demo_documents"
                    /\ d \in demo_documents ]_vars

\* user 2 has created a document with a body that names the administrator
\* as owner, while Alice's document, retitled by an update, is still hers
C14_Witness ==
    /\ Serving("create_document")
    /\ req.authorization = TokenOf(2)
    /\ "owner_id" \in DOMAIN req.document_data
    /\ req.document_data.owner_id = 5
    /\ \E d \in The(resp).docs : d \in documents /\ d.owner_id = 2
    /\ \E R \in documents : R.id = 1 /\ R.title = "Retitled" /\ R.owner_id = 1

(* C15: in every reachable state, the owner_id of every stored document is   *)
(* the id of a stored user.                                                  *)
C15_OwnerExists ==
    \A d \in documents : \E u \in users : u.id = d.owner_id

\* the issued tokens the request in flight presents
Presented == {i \in issued : req.authorization = {i.token}}

(* C16: whenever a request to a protected document endpoint that presents a  *)
(* token login returned for the credentials of principal P has been served,  *)
(* it was not answered with an authentication failure and the token          *)
(* resolves to requester id P.id.                                            *)
C16_LoginTokenRoundTrip ==
    (pc = "done" /\ route_of(req).endpoint \in Protected) =>
        \A i \in Presented :
            /\ ~AuthFailure(The(resp))
            /\ current_user_id_dependency(req).user_id = {i.principal}

(* C17: every principal created through register has role user, and a       *)
(* served document request that presents a token login issued to a          *)
(* principal of role user was not evaluated with is_admin true.              *)
C17_NoSelfEscalation ==
    /\ \A u \in users \ demo_users : u.role = "user"
    /\ ( /\ pc = "done"
         /\ route_of(req).endpoint \in {"get_document_secure", "get_document_rls",
                                        "update_document", "delete_document"} )
       => \A i \in Presented :
             (\E u \in users : u.id = i.principal /\ u.role = "user") =>
                 \A uid \in current_user_id_dependency(req).user_id :
                     ~is_admin_of(CurrentDb, uid)

(* C18: whenever a GET /documents/secure/me with a valid token has been      *)
(* served, it was dispatched to get_my_documents and answered 200 with       *)
(* exactly the stored documents whose owner_id is the requester's id.        *)
C18_ListMine ==
    ( /\ pc = "done"
      /\ req.method = "GET"
      /\ req.path = <<"documents", "secure", "me">>
      /\ current_user_id_dependency(req).exc = {} )
    => /\ route_of(req).endpoint = "get_my_documents"
       /\ \A uid \in current_user_id_dependency(req).user_id :
             The(resp) = DocumentResponse({d \in documents : d.owner_id = uid})

\* a username or an email of the body is that of a stored user
Taken(user_data) ==
    \E u \in users : u.username = user_data.username \/ u.email = user_data.email

\* worker w ends a register request in this step
RegisterEnds(w) ==
    /\ workers[w].pc \in {"router", "commit"}
    /\ workers'[w].pc = "done"
    /\ route_of(workers[w].req).endpoint = "register_user"

(* C19: under every interleaving of register and demo user setup requests,   *)
(* no two stored users share an id, a username or an email, and a register   *)
(* request that ends while its username or email is taken ends with an       *)
(* error response and leaves table users unchanged.                          *)
C19_UniquePrincipals ==
    /\ [](\A u, v \in users :
             u # v => (u.id # v.id /\ u.username # v.username /\ u.email # v.email))
    /\ [][ \A w \in Workers :
              (RegisterEnds(w) /\ Taken(workers[w].req.user_data)) =>
                  /\ The(workers'[w].resp).status \in {400, 500}
                  /\ users' = users ]_vars

\* a register request passed its checks, the demo setup then stored the same
\* username, and the register's commit was refused
C19_Witness ==
    \E w, v \in Workers :
        /\ workers[w].pc = "done"
        /\ route_of(workers[w].req).endpoint = "register_user"
        /\ The(workers[w].resp) = InternalServerError
        /\ workers[v].pc = "done"
        /\ route_of(workers[v].req).endpoint = "setup_demo_data"
        /\ The(workers[v].resp).status = 200
        /\ Cardinality({u \in users : u.username = workers[w].req.user_data.username}) = 1

\* worker w has committed an update of document 1
Updated(w) ==
    /\ workers[w].pc = "done"
    /\ workers[w].order > 0
    /\ route_of(workers[w].req).endpoint = "update_document"

(* C20: when the owner and an administrator have both committed an update    *)
(* of the same document concurrently, both were answered 200, the document   *)
(* keeps its owner_id, and each of title and content holds the value of the  *)
(* last committed update that supplied it, or its prior value when neither   *)
(* update supplied it.                                                       *)
C20_LastWriteWins ==
    \A w, v \in Workers :
        ( /\ w # v /\ Updated(w) /\ Updated(v)
          /\ workers[w].order < workers[v].order
          /\ \A x \in Workers \ {w, v} : workers[x].pc = "idle"
          /\ RequesterOf(w) # RequesterOf(v) )
        => LET first == workers[w].req.document_data
               last  == workers[v].req.document_data
               prior == CHOOSE d \in demo_documents : d.id = 1
               final == {d \in documents : d.id = 1}
           IN /\ The(workers[w].resp).status = 200
              /\ The(workers[v].resp).status = 200
              /\ final # {}
              /\ The(final).owner_id = prior.owner_id
              /\ \A f \in {"title", "content"} :
                    The(final)[f] = IF last[f] # None THEN last[f]
                                    ELSE IF first[f] # None THEN first[f]
                                    ELSE prior[f]

\* worker w has committed a delete of document 1 and reported success
Deleted(w) ==
    /\ workers[w].pc = "done"
    /\ workers[w].order > 0
    /\ route_of(workers[w].req).endpoint = "delete_document"
    /\ The(workers[w].resp).status = 200

\* worker v has ended an update that committed after worker w's commit
UpdatedAfter(v, w) ==
    /\ workers[v].pc = "done"
    /\ workers[v].order > workers[w].order
    /\ route_of(workers[v].req).endpoint = "update_document"

(* C21: among concurrent requests that passed the ownership check for the    *)
(* same document, once a delete has reported success the document is not     *)
(* stored in any later state (no request of these runs creates documents),   *)
(* and an update that commits after the delete stores no document and is     *)
(* not answered with an updated document.                                    *)
C21_DeleteNotUndone ==
    \A w \in Workers :
        Deleted(w) =>
            /\ \A d \in documents : d.id # The(workers[w].loaded).id
            /\ \A v \in Workers :
                  UpdatedAfter(v, w) =>
                      /\ The(workers[v].resp).status # 200
                      /\ The(workers[v].resp).docs = {}

\* the update loaded the document and passed the ownership check before the
\* delete committed, and committed a changed title after it
C21_Witness ==
    \E w, v \in Workers :
        /\ Deleted(w)
        /\ UpdatedAfter(v, w)
        /\ workers[v].loaded # {}
        /\ The(workers[v].loaded).id = The(workers[w].loaded).id
        /\ workers[v].req.document_data.title = "Retitled"
        /\ The(workers[v].resp) = InternalServerError

====
